---- MODULE Spec2Model ----
(***************************************************************************)
(* Model of libdnf/repo/librepo.cpp: the percent-encoder (url_encode), the *)
(* credential joiner (format_user_pass_string), the move-only owners of    *)
(* the engine's handle and result (LibrepoHandle, LibrepoResult) and the   *)
(* remote configurator (init_remote).                                      *)
(*                                                                         *)
(* Byte strings are sequences of numbers 0..255.  A float is held as an    *)
(* integer count of quarters (value * Quarter), rounded to the float's     *)
(* significand whenever the code converts to float or multiplies floats.   *)
(***************************************************************************)
EXTENDS Integers, Sequences, FiniteSets

VARIABLES
    ctype,      \* bytes >= 0x80 for which the C library's isalnum is non-zero
    enc,        \* the two url_encode calls: [src, out, done]
    config,     \* the configuration record handed to init_remote
    calls,      \* set_opt calls init_remote has issued on the handle, in order
    status,     \* "idle", "ok", "ConfigInvalid" or "OptionRejected"
    rejected,   \* index in calls of the call the engine rejected, 0 if none
    wrappers,   \* wrapper objects (LibrepoHandle / LibrepoResult): [exists, ptr]
    objects,    \* engine objects: [state, frees]
    last        \* the wrapper operation that ran last, with what it saw

vars == <<ctype, enc, config, calls, status, rejected, wrappers, objects, last>>

---------------------------------------------------------------------------
(* Bounds of the model *)

\* longest byte string given to url_encode
MaxLen == 3

\* number of engine objects the engine may allocate in one run
MaxObjs == 3

---------------------------------------------------------------------------
(* Bytes *)

PERCENT == 37
COLON == 58

\* input bytes: '%', ':', 'e' and the non-ASCII byte 0xee
Alphabet == {PERCENT, COLON, 101, 238}

\* the bytes of the alphabet that are negative as a (signed) char
HighBytes == {b \in Alphabet : b >= 128}

Strings(n) == UNION {[1..k -> Alphabet] : k \in 0..n}

---------------------------------------------------------------------------
(* url_encode *)

\* isalnum(ch): letters and digits in every locale; for a byte >= 0x80 the
\* result depends on the locale (and the argument is a negative char).
isalnum(ch) ==
    \/ ch \in 48..57
    \/ ch \in 65..90
    \/ ch \in 97..122
    \/ ch \in ctype

no_encode_percent(ch) == isalnum(ch) \/ ch \in {45, 46, 95, 126, PERCENT}

no_encode(ch) == isalnum(ch) \/ ch \in {45, 46, 95, 126}

\* hex += hex <= 9 ? '0' : 'a' - 10
hex_digit(hex) == IF hex <= 9 THEN hex + 48 ELSE hex + (97 - 10)

encode_byte(ch) ==
    IF no_encode(ch)
    THEN <<ch>>
    ELSE <<PERCENT, hex_digit(ch \div 16), hex_digit(ch % 16)>>

\* the first loop: the length reserved for the encoded string
RECURSIVE encoded_len(_)
encoded_len(s) ==
    IF s = <<>> THEN 0
    ELSE (IF no_encode(Head(s)) THEN 1 ELSE 3) + encoded_len(Tail(s))

RECURSIVE url_encode(_)
url_encode(s) ==
    IF s = <<>> THEN <<>> ELSE encode_byte(Head(s)) \o url_encode(Tail(s))

format_user_pass_string_plain(user, passwd, encode) == user \o <<COLON>> \o passwd

format_user_pass_string(user, passwd, encode) ==
    IF encode
    THEN url_encode(user) \o <<COLON>> \o url_encode(passwd)
    ELSE user \o <<COLON>> \o passwd

---------------------------------------------------------------------------
(* float arithmetic of init_remote *)

\* a float value v is held as the integer v * Quarter
Quarter == 4

\* a float's significand holds 24 bits
Significand == 16777216

\* the spacing of the floats around x
RECURSIVE ulp(_, _)
ulp(x, u) == IF x < Significand * u THEN u ELSE ulp(x, 2 * u)

\* round to the nearest float, ties to the even significand
round_float(x) ==
    LET u == ulp(x, 1)
        q == x \div u
        r == x % u
    IN  IF 2 * r > u \/ (2 * r = u /\ q % 2 = 1) THEN (q + 1) * u ELSE q * u

\* static_cast<float>(n) of an unsigned integer n
float_of_int(n) == round_float(n * Quarter)

\* a * b on floats
float_mul(a, b) == round_float((a * b) \div Quarter)

\* static_cast<int64_t>(f) of a float f >= 0
int_of_float(f) == f \div Quarter

---------------------------------------------------------------------------
(* init_remote *)

Opt(o, v) == [opt |-> o, val |-> v]

When(c, s) == IF c THEN s ELSE <<>>

PROXYAUTHMETHODS == <<
    [name |-> "none", code |-> "LR_AUTH_NONE"],
    [name |-> "basic", code |-> "LR_AUTH_BASIC"],
    [name |-> "digest", code |-> "LR_AUTH_DIGEST"],
    [name |-> "negotiate", code |-> "LR_AUTH_NEGOTIATE"],
    [name |-> "ntlm", code |-> "LR_AUTH_NTLM"],
    [name |-> "digest_ie", code |-> "LR_AUTH_DIGEST_IE"],
    [name |-> "ntlm_wb", code |-> "LR_AUTH_NTLM_WB"],
    [name |-> "any", code |-> "LR_AUTH_ANY"] >>

\* the loop over PROXYAUTHMETHODS from entry i on, with its break
RECURSIVE proxy_auth_loop(_, _, _)
proxy_auth_loop(str, i, dflt) ==
    IF i > Len(PROXYAUTHMETHODS) THEN dflt
    ELSE IF str = PROXYAUTHMETHODS[i].name THEN PROXYAUTHMETHODS[i].code
    ELSE proxy_auth_loop(str, i + 1, dflt)

proxy_auth_method_none(str) == proxy_auth_loop(str, 1, "LR_AUTH_NONE")

proxy_auth_method(str) == proxy_auth_loop(str, 1, "LR_AUTH_ANY")

\* maxspeed after the throttle/bandwidth adjustment
maxspeed_of(cfg) ==
    IF cfg.throttle > 0 /\ cfg.throttle <= 1 * Quarter
    THEN float_mul(cfg.throttle, float_of_int(cfg.bandwidth))
    ELSE cfg.throttle

\* the condition under which RepoDownloadError is thrown
speed_check_fails(cfg) ==
    maxspeed_of(cfg) # 0 /\ maxspeed_of(cfg) < float_of_int(cfg.minrate)

useragent_calls(cfg) == <<Opt("LRO_USERAGENT", cfg.user_agent)>>

rate_calls(cfg) ==
    << Opt("LRO_LOWSPEEDLIMIT", cfg.minrate),
       Opt("LRO_MAXSPEED", int_of_float(maxspeed_of(cfg))) >>

timeout_calls(cfg) ==
    When(cfg.timeout > 0,
         << Opt("LRO_CONNECTTIMEOUT", cfg.timeout),
            Opt("LRO_LOWSPEEDTIME", cfg.timeout) >>)

ipresolve_calls(cfg) ==
    IF cfg.ip_resolve = "ipv4" THEN <<Opt("LRO_IPRESOLVE", "LR_IPRESOLVE_V4")>>
    ELSE IF cfg.ip_resolve = "ipv6" THEN <<Opt("LRO_IPRESOLVE", "LR_IPRESOLVE_V6")>>
    ELSE <<>>

userpwd_calls(cfg) ==
    When(cfg.username # <<>>,
         <<Opt("LRO_USERPWD", format_user_pass_string(cfg.username, cfg.password, FALSE))>>)

ssl_calls(cfg) ==
    When(cfg.sslcacert # "", <<Opt("LRO_SSLCACERT", cfg.sslcacert)>>)
    \o When(cfg.sslclientcert # "", <<Opt("LRO_SSLCLIENTCERT", cfg.sslclientcert)>>)
    \o When(cfg.sslclientkey # "", <<Opt("LRO_SSLCLIENTKEY", cfg.sslclientkey)>>)
    \o << Opt("LRO_SSLVERIFYHOST", IF cfg.sslverify THEN 1 ELSE 0),
          Opt("LRO_SSLVERIFYPEER", IF cfg.sslverify THEN 1 ELSE 0) >>

proxy_calls(cfg) ==
    When(cfg.proxy.present /\ cfg.proxy.value # "",
         <<Opt("LRO_PROXY", cfg.proxy.value)>>)

proxy_auth_calls(cfg) ==
    <<Opt("LRO_PROXYAUTHMETHODS", proxy_auth_method(cfg.proxy_auth_method))>>

proxy_userpwd_calls(cfg) ==
    When(cfg.proxy_username.present /\ cfg.proxy_username.value # <<>>,
         <<Opt("LRO_PROXYUSERPWD",
               format_user_pass_string(cfg.proxy_username.value, cfg.proxy_password, TRUE))>>)

proxy_ssl_calls(cfg) ==
    When(cfg.proxy_sslcacert # "", <<Opt("LRO_PROXY_SSLCACERT", cfg.proxy_sslcacert)>>)
    \o When(cfg.proxy_sslclientcert # "",
            <<Opt("LRO_PROXY_SSLCLIENTCERT", cfg.proxy_sslclientcert)>>)
    \o When(cfg.proxy_sslclientkey # "",
            <<Opt("LRO_PROXY_SSLCLIENTKEY", cfg.proxy_sslclientkey)>>)
    \o << Opt("LRO_PROXY_SSLVERIFYHOST", IF cfg.proxy_sslverify THEN 1 ELSE 0),
          Opt("LRO_PROXY_SSLVERIFYPEER", IF cfg.proxy_sslverify THEN 1 ELSE 0) >>

\* the set_opt calls issued before the maxspeed/minrate check
before_check_late(cfg) == useragent_calls(cfg) \o rate_calls(cfg)

before_check(cfg) == useragent_calls(cfg)

\* the set_opt calls issued after the check, when it does not throw
after_check(cfg) ==
    rate_calls(cfg) \o timeout_calls(cfg) \o ipresolve_calls(cfg)
    \o userpwd_calls(cfg) \o ssl_calls(cfg) \o proxy_calls(cfg)
    \o proxy_auth_calls(cfg) \o proxy_userpwd_calls(cfg) \o proxy_ssl_calls(cfg)

\* the calls init_remote issues when the engine accepts every option
planned_calls(cfg) ==
    before_check(cfg) \o When(~speed_check_fails(cfg), after_check(cfg))

\* a run that goes on after the engine rejected the rej-th call
init_remote_swallow(cfg, rej) ==
    LET plan == planned_calls(cfg)
    IN  IF rej \in 1..Len(plan)
        THEN [calls |-> plan, status |-> "OptionRejected", rejected |-> rej]
        ELSE [calls |-> plan,
              status |-> IF speed_check_fails(cfg) THEN "ConfigInvalid" ELSE "ok",
              rejected |-> 0]

\* init_remote on a handle whose engine rejects the rej-th set_opt call
\* (none when rej is 0 or beyond the last call): set_opt throws and nothing
\* in init_remote catches it
init_remote(cfg, rej) ==
    LET plan == planned_calls(cfg)
    IN  IF rej \in 1..Len(plan)
        THEN [calls |-> SubSeq(plan, 1, rej), status |-> "OptionRejected",
              rejected |-> rej]
        ELSE [calls |-> plan,
              status |-> IF speed_check_fails(cfg) THEN "ConfigInvalid" ELSE "ok",
              rejected |-> 0]

---------------------------------------------------------------------------
(* LibrepoHandle and LibrepoResult *)

HandleSlots == {"h1", "h2"}

ResultSlots == {"r1", "r2"}

Slots == HandleSlots \cup ResultSlots

KindOf(w) == IF w \in HandleSlots THEN "handle" ELSE "result"

ObjIds == 1..MaxObjs

NoWrapper == [exists |-> FALSE, ptr |-> 0]

NoObject == [kind |-> "none", state |-> "unalloc", frees |-> 0]

NoOp == [op |-> "none", dst |-> "", src |-> "", dst_ptr |-> 0, src_ptr |-> 0]

Unallocated(objs) == {i \in ObjIds : objs[i].state = "unalloc"}

\* lr_handle_init / lr_result_init: the engine hands out a fresh object
engine_alloc(objs, kind) ==
    LET id == CHOOSE i \in Unallocated(objs) : \A j \in Unallocated(objs) : i <= j
    IN  [id |-> id,
         objects |-> [objs EXCEPT ![id] = [kind |-> kind, state |-> "live", frees |-> 0]]]

\* lr_handle_free / lr_result_free: a null pointer is ignored
engine_free(objs, p) ==
    IF p = 0 THEN objs
    ELSE [objs EXCEPT ![p].state = "freed", ![p].frees = @ + 1]

\* operator= that leaves the source pointing at the object it gave away
move_assign_keep_source(ws, objs, dst, src) ==
    IF dst # src
    THEN [wrappers |-> [ws EXCEPT ![dst].ptr = ws[src].ptr],
          objects |-> engine_free(objs, ws[dst].ptr)]
    ELSE [wrappers |-> ws, objects |-> objs]

\* operator= that drops the destination's object without freeing it
move_assign_no_free(ws, objs, dst, src) ==
    IF dst # src
    THEN [wrappers |-> [ws EXCEPT ![dst].ptr = ws[src].ptr, ![src].ptr = 0],
          objects |-> objs]
    ELSE [wrappers |-> ws, objects |-> objs]

\* LibrepoResult::operator=(LibrepoResult &&), LibrepoHandle::operator=(LibrepoHandle &&)
move_assign(ws, objs, dst, src) ==
    IF dst # src
    THEN [wrappers |-> [ws EXCEPT ![dst].ptr = ws[src].ptr, ![src].ptr = 0],
          objects |-> engine_free(objs, ws[dst].ptr)]
    ELSE [wrappers |-> ws, objects |-> objs]

\* LibrepoHandle::perform: the local result is returned to the caller's
\* wrapper r when the engine succeeds and destroyed by the throw otherwise
perform(ws, objs, r, ok) ==
    LET a == engine_alloc(objs, "result")
    IN  IF ok
        THEN [wrappers |-> [ws EXCEPT ![r] = [exists |-> TRUE, ptr |-> a.id]],
              objects |-> a.objects]
        ELSE [wrappers |-> ws, objects |-> engine_free(a.objects, a.id)]

---------------------------------------------------------------------------
(* Inputs *)

Absent == [present |-> FALSE, value |-> <<>>]

Present(v) == [present |-> TRUE, value |-> v]

DefaultConfig ==
    [ shape |-> "main",
      user_agent |-> "libdnf",
      minrate |-> 1000,
      throttle |-> 0,
      bandwidth |-> 0,
      timeout |-> 30,
      ip_resolve |-> "whatever",
      username |-> <<>>,
      password |-> <<>>,
      sslcacert |-> "",
      sslclientcert |-> "",
      sslclientkey |-> "",
      sslverify |-> TRUE,
      proxy |-> [present |-> FALSE, value |-> ""],
      proxy_auth_method |-> "any",
      proxy_username |-> Absent,
      proxy_password |-> <<>>,
      proxy_sslcacert |-> "",
      proxy_sslclientcert |-> "",
      proxy_sslclientkey |-> "",
      proxy_sslverify |-> TRUE ]

\* minrate and bandwidth in bytes per second
MinRates == {0, 1, 1000, 16777216, 16777217}

Bandwidths == {0, 1, 500, 4000, 16777217}

\* throttle: 0, 0.25, 0.5, 1.0, 2.0, 250.0, 1000.0, 16777216.0
Throttles == {0, 1, 2, 4, 8, 250 * Quarter, 1000 * Quarter, 16777216 * Quarter}

RateConfigs ==
    { [DefaultConfig EXCEPT !.minrate = x[1], !.throttle = x[2],
                            !.bandwidth = x[3], !.timeout = x[4]] :
        x \in MinRates \X Throttles \X Bandwidths \X {-1, 0, 30} }

UserNames == {<<>>, <<101>>, <<101, COLON>>, <<238, PERCENT>>}

Passwords == {<<>>, <<101>>, <<COLON, 238>>}

CredConfigs ==
    { [DefaultConfig EXCEPT !.username = x[1], !.password = x[2],
                            !.proxy_username = x[3], !.proxy_password = x[4]] :
        x \in UserNames \X Passwords
              \X ({Absent} \cup {Present(u) : u \in UserNames}) \X Passwords }

AuthTokens ==
    { "none", "basic", "digest", "negotiate", "ntlm", "digest_ie", "ntlm_wb", "any",
      "kerberos", "", "ANY", "digest_i", "ntlm_wbx" }

ProxyConfigs ==
    { [DefaultConfig EXCEPT !.proxy_auth_method = x[1], !.proxy = x[2],
                            !.ip_resolve = x[3]] :
        x \in AuthTokens
              \X { [present |-> FALSE, value |-> ""], [present |-> TRUE, value |-> ""],
                   [present |-> TRUE, value |-> "http://proxy:3128"] }
              \X {"ipv4", "ipv6", "auto"} }

SslConfigs ==
    { [DefaultConfig EXCEPT !.sslcacert = x[1], !.sslclientcert = x[2],
                            !.sslclientkey = x[3], !.sslverify = x[4],
                            !.proxy_sslcacert = x[5], !.proxy_sslclientcert = x[6],
                            !.proxy_sslclientkey = x[7], !.proxy_sslverify = x[8]] :
        x \in {"", "/ca.pem"} \X {"", "/cert.pem"} \X {"", "/key.pem"} \X BOOLEAN
              \X {"", "/pca.pem"} \X {"", "/pcert.pem"} \X {"", "/pkey.pem"} \X BOOLEAN }

\* ConfigMain and ConfigRepo expose the same fields
Configs ==
    { [c EXCEPT !.shape = s] :
        c \in RateConfigs \cup CredConfigs \cup ProxyConfigs \cup SslConfigs,
        s \in {"main", "repo"} }

---------------------------------------------------------------------------
(* States and actions *)

IdleEnc == [i \in 1..2 |-> [src |-> <<>>, out |-> <<>>, done |-> FALSE]]

IdleConfigurator ==
    /\ config = DefaultConfig
    /\ calls = <<>>
    /\ status = "idle"
    /\ rejected = 0

IdleWrappers ==
    /\ wrappers = [w \in Slots |-> NoWrapper]
    /\ objects = [i \in ObjIds |-> NoObject]
    /\ last = NoOp

\* url_encode(enc[i].src)
Encode(i) ==
    /\ ~enc[i].done
    /\ enc' = [enc EXCEPT ![i].out = url_encode(enc[i].src), ![i].done = TRUE]
    /\ UNCHANGED <<ctype, config, calls, status, rejected, wrappers, objects, last>>

Configure(rej) ==
    /\ status = "idle"
    /\ LET run == init_remote(config, rej)
       IN  /\ calls' = run.calls
           /\ status' = run.status
           /\ rejected' = run.rejected
    /\ UNCHANGED <<ctype, enc, config, wrappers, objects, last>>

\* LibrepoHandle::init_remote(const ConfigMain &)
InitRemoteMain ==
    /\ config.shape = "main"
    /\ \E rej \in 0..Len(planned_calls(config)) : Configure(rej)

\* LibrepoHandle::init_remote(const ConfigRepo &)
InitRemoteRepo ==
    /\ config.shape = "repo"
    /\ \E rej \in 0..Len(planned_calls(config)) : Configure(rej)

OwnFrame == UNCHANGED <<ctype, enc, config, calls, status, rejected>>

\* LibrepoHandle() / LibrepoResult(): the engine allocates
Construct(w) ==
    /\ ~wrappers[w].exists
    /\ Unallocated(objects) # {}
    /\ LET a == engine_alloc(objects, KindOf(w))
       IN  /\ wrappers' = [wrappers EXCEPT ![w] = [exists |-> TRUE, ptr |-> a.id]]
           /\ objects' = a.objects
    /\ last' = [NoOp EXCEPT !.op = "construct", !.dst = w]
    /\ OwnFrame

\* the engine returns null: the constructor throws and no wrapper exists
ConstructFails(w) ==
    /\ ~wrappers[w].exists
    /\ last' = [NoOp EXCEPT !.op = "alloc_failed", !.dst = w]
    /\ UNCHANGED <<wrappers, objects>>
    /\ OwnFrame

\* LibrepoHandle(LibrepoHandle &&) / LibrepoResult(LibrepoResult &&)
MoveConstruct(dst, src) ==
    /\ KindOf(dst) = KindOf(src)
    /\ ~wrappers[dst].exists
    /\ wrappers[src].exists
    /\ wrappers' = [wrappers EXCEPT ![dst] = [exists |-> TRUE, ptr |-> wrappers[src].ptr],
                                    ![src].ptr = 0]
    /\ UNCHANGED objects
    /\ last' = [op |-> "move_construct", dst |-> dst, src |-> src,
                dst_ptr |-> 0, src_ptr |-> wrappers[src].ptr]
    /\ OwnFrame

\* dst = std::move(src), dst and src possibly the same wrapper
MoveAssign(dst, src) ==
    /\ KindOf(dst) = KindOf(src)
    /\ wrappers[dst].exists
    /\ wrappers[src].exists
    /\ LET m == move_assign(wrappers, objects, dst, src)
       IN  /\ wrappers' = m.wrappers
           /\ objects' = m.objects
    /\ last' = [op |-> "move_assign", dst |-> dst, src |-> src,
                dst_ptr |-> wrappers[dst].ptr, src_ptr |-> wrappers[src].ptr]
    /\ OwnFrame

\* ~LibrepoHandle() / ~LibrepoResult()
Destruct(w) ==
    /\ wrappers[w].exists
    /\ wrappers' = [wrappers EXCEPT ![w] = NoWrapper]
    /\ objects' = engine_free(objects, wrappers[w].ptr)
    /\ last' = [NoOp EXCEPT !.op = "destruct", !.dst = w, !.dst_ptr = wrappers[w].ptr]
    /\ OwnFrame

\* r = h.perform(), on a handle that still owns its session
Perform(h, r, ok) ==
    /\ wrappers[h].exists
    /\ wrappers[h].ptr # 0
    /\ ~wrappers[r].exists
    /\ Unallocated(objects) # {}
    /\ LET p == perform(wrappers, objects, r, ok)
       IN  /\ wrappers' = p.wrappers
           /\ objects' = p.objects
    /\ last' = [NoOp EXCEPT !.op = IF ok THEN "perform_ok" ELSE "perform_failed",
                            !.dst = r, !.src = h, !.src_ptr = wrappers[h].ptr]
    /\ OwnFrame

---------------------------------------------------------------------------
(* Specifications *)

\* the configurator on a fresh handle
Init ==
    /\ ctype \in SUBSET HighBytes
    /\ enc = IdleEnc
    /\ config \in Configs
    /\ calls = <<>>
    /\ status = "idle"
    /\ rejected = 0
    /\ IdleWrappers

Next ==
    \/ InitRemoteMain
    \/ InitRemoteRepo

Spec == Init /\ [][Next]_vars

\* two calls of url_encode
InitEnc ==
    /\ ctype \in SUBSET HighBytes
    /\ enc \in [1..2 -> {[src |-> s, out |-> <<>>, done |-> FALSE] : s \in Strings(MaxLen)}]
    /\ IdleConfigurator
    /\ IdleWrappers

NextEnc == \E i \in 1..2 : Encode(i)

SpecEnc == InitEnc /\ [][NextEnc]_vars

\* the wrappers
InitOwn ==
    /\ ctype = {}
    /\ enc = IdleEnc
    /\ IdleConfigurator
    /\ IdleWrappers

NextOwn ==
    \/ \E w \in Slots : Construct(w)
    \/ \E w \in Slots : ConstructFails(w)
    \/ \E dst, src \in Slots : MoveConstruct(dst, src)
    \/ \E dst, src \in Slots : MoveAssign(dst, src)
    \/ \E w \in Slots : Destruct(w)
    \/ \E h \in HandleSlots, r \in ResultSlots, ok \in BOOLEAN : Perform(h, r, ok)

SpecOwn == InitOwn /\ [][NextOwn]_vars

---------------------------------------------------------------------------
(* Properties *)

Finished == status # "idle"

\* indices of the calls that set option o
CallsOf(o) == {i \in DOMAIN calls : calls[i].opt = o}

\* indices of the calls the engine accepted
Accepted == {i \in DOMAIN calls : i # rejected}

\* maxspeed as the configuration states it, in quarters: throttle * bandwidth
\* for a throttle in (0, 1], the throttle itself otherwise
StatedMaxspeed(cfg) ==
    IF cfg.throttle > 0 /\ cfg.throttle <= Quarter
    THEN cfg.throttle * cfg.bandwidth
    ELSE cfg.throttle

\* C1: once the user agent is accepted, a configuration with maxspeed # 0 and
\* maxspeed < minrate makes init_remote fail with ConfigInvalid
\* (RepoDownloadError).
C1_LowMaxspeedIsConfigInvalid ==
    ( /\ Finished
      /\ rejected # 1
      /\ StatedMaxspeed(config) # 0
      /\ StatedMaxspeed(config) < config.minrate * Quarter )
    => status = "ConfigInvalid"

\* every option init_remote sets after the maxspeed/minrate check
AfterCheckOptions ==
    { "LRO_LOWSPEEDLIMIT", "LRO_MAXSPEED", "LRO_CONNECTTIMEOUT", "LRO_LOWSPEEDTIME",
      "LRO_IPRESOLVE", "LRO_USERPWD", "LRO_SSLCACERT", "LRO_SSLCLIENTCERT",
      "LRO_SSLCLIENTKEY", "LRO_SSLVERIFYHOST", "LRO_SSLVERIFYPEER", "LRO_PROXY",
      "LRO_PROXYAUTHMETHODS", "LRO_PROXYUSERPWD", "LRO_PROXY_SSLCACERT",
      "LRO_PROXY_SSLCLIENTCERT", "LRO_PROXY_SSLCLIENTKEY", "LRO_PROXY_SSLVERIFYHOST",
      "LRO_PROXY_SSLVERIFYPEER" }

\* C2: a run that ends in ConfigInvalid has written neither the low-speed
\* limit nor the max speed, nor any option that follows the check.
C2_ConfigInvalidWritesNothingAfterCheck ==
    status = "ConfigInvalid" =>
        \A i \in DOMAIN calls : calls[i].opt \notin AfterCheckOptions

C2_Witness ==
    /\ status = "ConfigInvalid"
    /\ config.minrate = 1000
    /\ config.throttle = 2 * Quarter
    /\ Len(calls) = 1
    /\ calls[1].opt = "LRO_USERAGENT"

\* wrappers that own engine object i
OwnersOf(i) == {w \in Slots : wrappers[w].exists /\ wrappers[w].ptr = i}

\* C3: every engine object allocated and not yet freed is owned by exactly
\* one wrapper, and no wrapper points at a freed (or never allocated) object.
C3_ExclusiveOwnership ==
    /\ \A i \in ObjIds : objects[i].state = "live" => Cardinality(OwnersOf(i)) = 1
    /\ \A w \in Slots :
          wrappers[w].exists /\ wrappers[w].ptr # 0
              => objects[wrappers[w].ptr].state = "live"

C3_Witness ==
    /\ last.op = "move_assign"
    /\ last.dst # last.src
    /\ last.dst_ptr # 0
    /\ last.src_ptr # 0
    /\ \E r \in ResultSlots : wrappers[r].exists /\ wrappers[r].ptr # 0

\* no object is freed twice, and once no wrapper is left every allocated
\* object has been freed exactly once
FreedExactlyOnce ==
    /\ \A i \in ObjIds : objects[i].frees <= 1
    /\ (\A w \in Slots : ~wrappers[w].exists)
          => \A i \in ObjIds : objects[i].state # "unalloc" => objects[i].frees = 1

\* the state right after a move: the source is null and the object the
\* destination owned before has been freed
MovedFrom ==
    /\ wrappers[last.src].ptr = 0
    /\ last.dst_ptr # 0 => objects[last.dst_ptr].state = "freed"

\* C4 as stated: free runs exactly once per allocated object, and after every
\* move, a move-assignment of a wrapper to itself included, the source is
\* null and the destination's previous object is freed.
C4_Original ==
    /\ FreedExactlyOnce
    /\ last.op \in {"move_construct", "move_assign"} => MovedFrom

\* C4 amended: free runs exactly once per allocated object; after a move
\* between two distinct wrappers the source is null and the destination's
\* previous object is freed; a move-assignment of a wrapper to itself leaves
\* the wrapper and its object as they were.
C4_FreedOnceAndMoveTransfers ==
    /\ FreedExactlyOnce
    /\ (last.op \in {"move_construct", "move_assign"} /\ last.dst # last.src)
          => MovedFrom
    /\ (last.op = "move_assign" /\ last.dst = last.src)
          => /\ wrappers[last.src].ptr = last.src_ptr
             /\ last.src_ptr # 0 => objects[last.src_ptr].state = "live"

C4_Witness ==
    /\ last.op = "move_assign"
    /\ last.dst = last.src
    /\ last.src_ptr # 0
    /\ \E i \in ObjIds : objects[i].frees = 1

\* C5: when the engine rejects an option the run stops there with
\* OptionRejected: the calls issued are the routine's calls up to the rejected
\* one, which is the last, so the options written are exactly those before it.
C5_RejectionStopsTheRun ==
    status = "OptionRejected" =>
        /\ rejected >= 1
        /\ Len(calls) = rejected
        /\ calls = SubSeq(planned_calls(config), 1, rejected)
        /\ Accepted = 1..(rejected - 1)

C5_Witness ==
    /\ status = "OptionRejected"
    /\ rejected = 3
    /\ calls[3].opt = "LRO_MAXSPEED"
    /\ Len(planned_calls(config)) > 3

\* the unreserved bytes: A-Z, a-z, 0-9, '-', '.', '_', '~'
Unreserved == (65..90) \cup (97..122) \cup (48..57) \cup {45, 46, 95, 126}

LowerHex == (48..57) \cup (97..102)

HexValue(c) == IF c \in 48..57 THEN c - 48 ELSE c - 97 + 10

RECURSIVE CountUnreserved(_)
CountUnreserved(s) ==
    IF s = <<>> THEN 0
    ELSE (IF Head(s) \in Unreserved THEN 1 ELSE 0) + CountUnreserved(Tail(s))

\* e is s with every unreserved byte verbatim and every other byte as '%'
\* and the two lower-case hex digits of the byte
RECURSIVE IsEncodingOf(_, _)
IsEncodingOf(e, s) ==
    IF s = <<>> THEN e = <<>>
    ELSE IF Head(s) \in Unreserved
         THEN e # <<>> /\ Head(e) = Head(s) /\ IsEncodingOf(Tail(e), Tail(s))
         ELSE /\ Len(e) >= 3
              /\ e[1] = PERCENT
              /\ e[2] \in LowerHex
              /\ e[3] \in LowerHex
              /\ 16 * HexValue(e[2]) + HexValue(e[3]) = Head(s)
              /\ IsEncodingOf(SubSeq(e, 4, Len(e)), Tail(s))

\* C6: url_encode(s) holds each unreserved byte of s verbatim and every other
\* byte as '%' plus two lower-case hex digits, so its length is
\* count_unreserved(s) + 3 * count_other(s).
C6_EncodeShape ==
    \A i \in 1..2 : enc[i].done =>
        /\ IsEncodingOf(enc[i].out, enc[i].src)
        /\ Len(enc[i].out) = CountUnreserved(enc[i].src)
                             + 3 * (Len(enc[i].src) - CountUnreserved(enc[i].src))

\* C7: url_encode is injective: equal outputs come from equal inputs.
C7_EncodeInjective ==
    (enc[1].done /\ enc[2].done /\ enc[1].out = enc[2].out)
        => enc[1].src = enc[2].src

C7_Witness ==
    /\ enc[1].done
    /\ enc[2].done
    /\ enc[1].src = <<PERCENT, 101, 101>>
    /\ enc[2].src = <<238>>
    /\ enc[2].out = <<PERCENT, 101, 101>>
    /\ enc[1].out # enc[2].out

\* C8: in a run that completes, LRO_USERPWD is set iff username is non-empty,
\* to username ':' password byte for byte; LRO_PROXYUSERPWD is set iff
\* proxy_username is present and non-empty, to url_encode(proxy_username) ':'
\* url_encode(proxy_password).
C8_Credentials ==
    status = "ok" =>
        /\ Cardinality(CallsOf("LRO_USERPWD")) = (IF config.username # <<>> THEN 1 ELSE 0)
        /\ \A i \in CallsOf("LRO_USERPWD") :
              calls[i].val = config.username \o <<COLON>> \o config.password
        /\ Cardinality(CallsOf("LRO_PROXYUSERPWD"))
              = (IF config.proxy_username.present /\ config.proxy_username.value # <<>>
                 THEN 1 ELSE 0)
        /\ \A i \in CallsOf("LRO_PROXYUSERPWD") :
              calls[i].val = url_encode(config.proxy_username.value) \o <<COLON>>
                             \o url_encode(config.proxy_password)

C8_Witness ==
    /\ status = "ok"
    /\ config.username = <<101, COLON>>
    /\ config.password = <<COLON, 238>>
    /\ config.proxy_username = Present(<<101, COLON>>)
    /\ config.proxy_password = <<COLON, 238>>
    /\ CallsOf("LRO_USERPWD") # {}
    /\ \E i \in CallsOf("LRO_PROXYUSERPWD") :
          SubSeq(calls[i].val, 1, 5) = <<101, PERCENT, 51, 97, COLON>>

\* the method each token of the enumeration stands for, `any` for the rest
AuthMethodOf(str) ==
    CASE str = "none" -> "LR_AUTH_NONE"
      [] str = "basic" -> "LR_AUTH_BASIC"
      [] str = "digest" -> "LR_AUTH_DIGEST"
      [] str = "negotiate" -> "LR_AUTH_NEGOTIATE"
      [] str = "ntlm" -> "LR_AUTH_NTLM"
      [] str = "digest_ie" -> "LR_AUTH_DIGEST_IE"
      [] str = "ntlm_wb" -> "LR_AUTH_NTLM_WB"
      [] OTHER -> "LR_AUTH_ANY"

ProxyAuthAndLater ==
    { "LRO_PROXYAUTHMETHODS", "LRO_PROXYUSERPWD", "LRO_PROXY_SSLCACERT",
      "LRO_PROXY_SSLCLIENTCERT", "LRO_PROXY_SSLCLIENTKEY", "LRO_PROXY_SSLVERIFYHOST",
      "LRO_PROXY_SSLVERIFYPEER" }

\* the run got as far as the proxy_auth_method mapping: it completed, or the
\* engine rejected the proxy-auth-methods option or a later one
ReachedProxyAuth ==
    \/ status = "ok"
    \/ status = "OptionRejected" /\ calls[rejected].opt \in ProxyAuthAndLater

C10_WrittenMaxspeedNotBelowMinrate ==
    \A i \in CallsOf("LRO_LOWSPEEDLIMIT") \cap Accepted :
        \A j \in CallsOf("LRO_MAXSPEED") \cap Accepted :
            calls[j].val = 0 \/ calls[j].val >= calls[i].val

====
